---- MODULE Spec2Model ----
(***************************************************************************)
(* The SNMP Printer integration: the refresh cycle of                      *)
(* custom_components/snmp_printer/__init__.py (async_setup_entry and its   *)
(* closure async_update_data), the cache record it loads and saves, and    *)
(* the coordinator that publishes the cycle's result.                      *)
(*                                                                         *)
(* Python values: a dict is a function over its keys (an absent key is a   *)
(* key outside DOMAIN), a str that the code inspects is a sequence of      *)
(* one-character strings, None is the record None; an int that a property  *)
(* hands on where it may also hand on None is the record PyInt(n).           *)
(***************************************************************************)
EXTENDS Integers, Sequences, FiniteSets, TLC

VARIABLES
    disk,                 \* the record in the Store's file, or None
    cached_data,          \* closure variable of async_setup_entry (line 83)
    coordinator_data,     \* coordinator.data: the published snapshot, or None
    last_update_success,  \* coordinator.last_update_success
    listeners,            \* TRUE once the sensor platform has added its entities
    pc,                   \* where async_setup_entry / the coordinator stands
    at,                   \* position inside async_update_data (0: not running)
    replies,              \* results the running cycle has obtained so far
    now,                  \* the clock (datetime.now()), in cycles
    last,                 \* history: how the most recent cycle ended
    prev_data,            \* history: coordinator.data when that cycle began
    good,                 \* history: the most recent cycle that returned fresh data
    startup_record,       \* history: the record on disk when the process started
    load_outcome,         \* history: how store.async_load ended
    entry_options,        \* entry.options
    entry_data,           \* entry.data (the keys other than the host)
    update_interval,      \* coordinator.update_interval, None before it is created
    sensor_setup,         \* how the sensor platform's async_setup_entry ended
    readout,              \* what the status entity last reported
    entities,             \* the supply and tray entities the platform added
    probe                 \* history: the attempts of the cycle's check_web_interface

vars ==
    << disk, cached_data, coordinator_data, last_update_success, listeners, pc,
       at, replies, now, last, prev_data, good, startup_record, load_outcome,
       entry_options, entry_data, update_interval, sensor_setup, readout, entities, probe >>

-----------------------------------------------------------------------------
(* Bounds *)

\* Number of refresh cycles a behaviour runs (the clock stops there).
MaxCycles == 3

-----------------------------------------------------------------------------
(* Python values *)

None == [py_none |-> TRUE]

EmptyDict == [k \in {} |-> None]

\* d.get(k)
Get(d, k) == IF k \in DOMAIN d THEN d[k] ELSE None

\* d.get(k, default)
GetDefault(d, k, default) == IF k \in DOMAIN d THEN d[k] ELSE default

\* d[k] = v
SetKey(d, k, v) == [x \in (DOMAIN d) \cup {k} |-> IF x = k THEN v ELSE d[x]]

\* {**f, **g}
Merge(f, g) ==
    [k \in (DOMAIN f) \cup (DOMAIN g) |-> IF k \in DOMAIN g THEN g[k] ELSE f[k]]

\* bool(v) for a value that is None or a dict
Truthy(v) == v # None /\ v # EmptyDict

\* The int n where the code returns "an int or None"
PyInt(n) == [int |-> n]

\* datetime.isoformat(): the timestamp string of clock value t
isoformat(t) == [iso |-> t]

-----------------------------------------------------------------------------
(* Strings the code inspects *)

UpperCase ==
    << "A", "B", "C", "D", "E", "F", "G", "H", "I", "J", "K", "L", "M",
       "N", "O", "P", "Q", "R", "S", "T", "U", "V", "W", "X", "Y", "Z" >>

LowerCase ==
    << "a", "b", "c", "d", "e", "f", "g", "h", "i", "j", "k", "l", "m",
       "n", "o", "p", "q", "r", "s", "t", "u", "v", "w", "x", "y", "z" >>

LowerChar(c) ==
    IF \E i \in 1..Len(UpperCase) : UpperCase[i] = c
    THEN LowerCase[CHOOSE i \in 1..Len(UpperCase) : UpperCase[i] = c]
    ELSE c

\* str.lower()
Lower(s) == [i \in 1..Len(s) |-> LowerChar(s[i])]

\* k in s
Contains(s, k) ==
    \E i \in 0..(Len(s) - Len(k)) : \A j \in 1..Len(k) : s[i + j] = k[j]

\* Error messages a failing call can carry (str(err)).
\* "Timeout"
MsgTimeout ==
    <<"T", "i", "m", "e", "o", "u", "t">>
\* "UNREACHABLE"
MsgUnreachable ==
    <<"U", "N", "R", "E", "A", "C", "H", "A", "B", "L", "E">>
\* "No route"
MsgNoRoute ==
    <<"N", "o", " ", "r", "o", "u", "t", "e">>
\* "ConnectioN lost"
MsgConnection ==
    <<"C", "o", "n", "n", "e", "c", "t", "i", "o", "N", " ", "l", "o", "s", "t">>
\* "Network down"
MsgNetwork ==
    <<"N", "e", "t", "w", "o", "r", "k", " ", "d", "o", "w", "n">>
\* "ghost"
MsgGhost ==
    <<"g", "h", "o", "s", "t">>
\* "Refused"
MsgRefused ==
    <<"R", "e", "f", "u", "s", "e", "d">>
\* "authentication failed"
MsgAuthFailed ==
    <<"a", "u", "t", "h", "e", "n", "t", "i", "c", "a", "t", "i", "o", "n", " ",
      "f", "a", "i", "l", "e", "d">>
\* "No Response"
MsgNoResponse ==
    <<"N", "o", " ", "R", "e", "s", "p", "o", "n", "s", "e">>
\* "timed out"
MsgTimedOut ==
    <<"t", "i", "m", "e", "d", " ", "o", "u", "t">>
\* "no  route" (two spaces)
MsgNoRouteGap ==
    <<"n", "o", " ", " ", "r", "o", "u", "t", "e">>
\* "wrong digest"
MsgWrongDigest ==
    <<"w", "r", "o", "n", "g", " ", "d", "i", "g", "e", "s", "t">>
\* "no snmp response"
MsgNoSnmpResponse ==
    <<"n", "o", " ", "s", "n", "m", "p", " ", "r", "e", "s", "p", "o", "n", "s", "e">>
\* ""
MsgEmpty ==
    <<>>
\* "Read-only file system"
MsgReadOnly ==
    <<"R", "e", "a", "d", "-", "o", "n", "l", "y", " ", "f", "i", "l", "e", " ",
      "s", "y", "s", "t", "e", "m">>
\* "Write FAILED"
MsgWriteFailed ==
    <<"W", "r", "i", "t", "e", " ", "F", "A", "I", "L", "E", "D">>

\* Messages of a failing protocol query.
QueryMessages ==
    { MsgTimeout, MsgUnreachable, MsgNoRoute, MsgConnection, MsgNetwork, MsgGhost,
      MsgRefused, MsgAuthFailed, MsgNoResponse, MsgTimedOut, MsgNoRouteGap,
      MsgWrongDigest, MsgNoSnmpResponse, MsgEmpty }

\* Messages of a store.async_save that raises.
SaveMessages == { MsgReadOnly, MsgWriteFailed }

-----------------------------------------------------------------------------
(* Configuration *)

\* entry.data[CONF_HOST]
CONF_HOST == "printer.lan"

\* Hosts a record found at startup may name.
Hosts == { CONF_HOST, "old.lan" }

-----------------------------------------------------------------------------
(* The protocol client (snmp_client.SNMPClient): one call per data group; a  *)
(* call returns its data or raises an error that carries a message. What the *)
(* device answers changes from cycle to cycle: a reply read at clock value c *)
(* carries c (uptime and page counters grow, levels fall).                   *)

Queries ==
    << "system_info", "device_info", "cover_status", "supplies", "input_trays",
       "display_text", "errors" >>

get_system_info(c) ==
    { [description |-> "HP LaserJet", serial_number |-> "SN1", uptime |-> c] }

get_device_info(c) ==
    { [state |-> "idle", page_count |-> c],
      [state |-> "printing", page_counts |-> [total |-> c, color |-> c]] }

get_cover_status(c) == { <<"closed", c>> }

\* The supply with index i as read at clock value c.
Supply(i, c) ==
    IF i = 1
    THEN [index |-> 1, color |-> "Black", type |-> "toner", percentage |-> 100 - c]
    ELSE [index |-> i, color |-> "Cyan", type |-> "ink", percentage |-> 100 - c]

\* The indexes of the supplies the device lists at clock value c, in the order
\* it lists them: cartridges are put in and taken out between cycles.
SupplySlots(c) ==
    CASE c % 4 = 0 -> << 1 >>
      [] c % 4 = 1 -> << 1, 2 >>
      [] c % 4 = 2 -> << 2 >>
      [] OTHER -> << 2, 1 >>

get_supplies(c) ==
    { [k \in 1..Len(SupplySlots(c)) |-> Supply(SupplySlots(c)[k], c)] }

\* The tray with index i as read at clock value c.
Tray(i, c) ==
    IF i = 1
    THEN [index |-> 1, description |-> "Tray 1", percentage |-> 100 - c]
    ELSE [index |-> i, description |-> "MP Tray", status |-> "ready",
          percentage |-> 100 - c]

\* The indexes of the trays the device lists at clock value c.
TraySlots(c) ==
    CASE c % 4 = 0 -> << 1 >>
      [] c % 4 = 1 -> << 1 >>
      [] c % 4 = 2 -> << 1, 2 >>
      [] OTHER -> << 2 >>

get_input_trays(c) ==
    { [k \in 1..Len(TraySlots(c)) |-> Tray(TraySlots(c)[k], c)] }

get_display_text(c) == { <<"Ready", c>> }

get_printer_errors(c) == { <<"Low toner", c>> }

\* The replies query q can return at clock value c.
Replies(q, c) ==
    CASE q = "system_info" -> get_system_info(c)
      [] q = "device_info" -> get_device_info(c)
      [] q = "cover_status" -> get_cover_status(c)
      [] q = "supplies" -> get_supplies(c)
      [] q = "input_trays" -> get_input_trays(c)
      [] q = "display_text" -> get_display_text(c)
      [] q = "errors" -> get_printer_errors(c)

-----------------------------------------------------------------------------
(* check_web_interface: an attempt answers with a status or raises.          *)

WebOutcomes == { [status |-> 200], [status |-> 500], [raised |-> "timeout"] }

\* The HTTPS attempt when line 38 has returned before it.
NotAttempted == [skipped |-> TRUE]

\* The outcomes of the HTTPS attempt after the HTTP attempt ended with http.
HttpsOutcomes(http) ==
    IF "status" \in DOMAIN http /\ http.status < 500 THEN { NotAttempted } ELSE WebOutcomes

WebAttemptTrue(o) == "status" \in DOMAIN o /\ o.status < 500

\* Variant of check_web_interface: only the HTTP attempt counts.
check_web_interface_HttpOnly(http, https) == WebAttemptTrue(http)

check_web_interface(http, https) ==
    IF WebAttemptTrue(http) THEN TRUE
    ELSE IF WebAttemptTrue(https) THEN TRUE
    ELSE FALSE

-----------------------------------------------------------------------------
(* async_update_data *)

\* The dict assembled from a cycle's results (lines 91-105).
AssembleData(r) ==
    [ info |-> Merge(r.system_info, r.device_info),
      status |-> r.device_info,
      cover_status |-> [state |-> r.cover_status],
      page_count |-> GetDefault(r.device_info, "page_counts",
                                [total |-> Get(r.device_info, "page_count")]),
      supplies |-> r.supplies,
      input_trays |-> r.input_trays,
      display_text |-> r.display_text,
      errors |-> r.errors,
      web_interface_available |-> r.web_interface_available ]

\* Variant of cache_data: the data is marked online before the record is built.
cache_data_MarkedOnline(data, t) ==
    [ data |-> [x \in (DOMAIN data) \cup {"is_online"} |->
                    IF x = "is_online" THEN TRUE ELSE data[x]],
      timestamp |-> isoformat(t), host |-> CONF_HOST ]

\* The record handed to store.async_save (lines 108-112).
cache_data(data, t) ==
    [data |-> data, timestamp |-> isoformat(t), host |-> CONF_HOST]

\* data["is_online"] = True (line 116)
MarkOnline(data) == SetKey(data, "is_online", TRUE)

\* Variant of Keywords: the list without "failed".
Keywords_WithoutFailed ==
    << <<"t", "i", "m", "e", "o", "u", "t">>,
       <<"u", "n", "r", "e", "a", "c", "h", "a", "b", "l", "e">>,
       <<"n", "o", " ", "r", "o", "u", "t", "e">>,
       <<"c", "o", "n", "n", "e", "c", "t", "i", "o", "n">>,
       <<"n", "e", "t", "w", "o", "r", "k">>,
       <<"h", "o", "s", "t">>,
       <<"r", "e", "f", "u", "s", "e", "d">>,
       <<"n", "o", " ", "r", "e", "s", "p", "o", "n", "s", "e">> >>

\* The keyword list of the except clause (lines 124-134).
Keywords ==
    << <<"t", "i", "m", "e", "o", "u", "t">>,
       <<"u", "n", "r", "e", "a", "c", "h", "a", "b", "l", "e">>,
       <<"n", "o", " ", "r", "o", "u", "t", "e">>,
       <<"c", "o", "n", "n", "e", "c", "t", "i", "o", "n">>,
       <<"n", "e", "t", "w", "o", "r", "k">>,
       <<"h", "o", "s", "t">>,
       <<"r", "e", "f", "u", "s", "e", "d">>,
       <<"f", "a", "i", "l", "e", "d">>,
       <<"n", "o", " ", "r", "e", "s", "p", "o", "n", "s", "e">> >>

\* Variant of error_msg: the message is not lowered.
error_msg_NotLowered(msg) == msg

\* error_msg = str(err).lower() (line 121)
error_msg(msg) == Lower(msg)

\* Variant of is_connection_error: every failure counts as a connection error.
is_connection_error_Always(msg) == TRUE

\* is_connection_error (lines 122-135)
is_connection_error(msg) ==
    \E i \in 1..Len(Keywords) : Contains(error_msg(msg), Keywords[i])

\* is_connection_error for every message a call can raise, computed once.
Classification ==
    [msg \in QueryMessages \cup SaveMessages |-> is_connection_error(msg)]

\* The condition of the fallback (line 138).
UseCache(cd, msg) == Truthy(Get(cd, "data")) /\ Classification[msg]

\* Variant of cached_printer_data: offline_since is the time of the failure.
cached_printer_data_FailureTime(cd) ==
    SetKey(SetKey(cd.data, "is_online", FALSE), "offline_since", isoformat(now))

\* The fallback snapshot (lines 146-148).
cached_printer_data(cd) ==
    SetKey(SetKey(cd.data, "is_online", FALSE), "offline_since", Get(cd, "timestamp"))

\* Variant of OnException: the fallback does not ask for cached data.
OnException_NoDataCheck(cd, msg) ==
    IF Classification[msg]
    THEN [ kind |-> "return",
           value |-> SetKey(SetKey(GetDefault(cd, "data", EmptyDict), "is_online", FALSE),
                            "offline_since", Get(cd, "timestamp")) ]
    ELSE [kind |-> "raise"]

\* Variant of OnException: the fallback keeps the supplies the failed cycle
\* had already read.
OnException_BlendPartial(cd, msg) ==
    IF UseCache(cd, msg)
    THEN [ kind |-> "return",
           value |-> IF "supplies" \in DOMAIN replies
                     THEN SetKey(cached_printer_data(cd), "supplies", replies.supplies)
                     ELSE cached_printer_data(cd) ]
    ELSE [kind |-> "raise"]

\* The except clause (lines 119-153): return the fallback or raise UpdateFailed.
OnException(cd, msg) ==
    IF UseCache(cd, msg)
    THEN [kind |-> "return", value |-> cached_printer_data(cd)]
    ELSE [kind |-> "raise"]

\* Variant of CachedDataAfter: the fallback fields are set on the cached dict
\* itself, not on a copy.
CachedDataAfter_NoCopy(cd, msg) ==
    IF UseCache(cd, msg) THEN SetKey(cd, "data", cached_printer_data(cd)) ELSE cd

\* cached_data once the except clause has run: lines 146-148 write to a copy
\* of cached_data["data"], and nothing assigns cached_data.
CachedDataAfter(cd, msg) == cd

-----------------------------------------------------------------------------
(* The refresh interval (lines 73-77 and 160) *)

\* const.DEFAULT_UPDATE_INTERVAL and the floor the configuration is said to
\* enforce, in seconds (the floor is below the default).
DEFAULT_UPDATE_INTERVAL == 6

MIN_UPDATE_INTERVAL == 3

\* Largest refresh interval a configuration holds.
MaxInterval == 8

\* What entry.options and entry.data can hold under CONF_UPDATE_INTERVAL.
IntervalSettings ==
    { EmptyDict } \cup { [update_interval |-> v] : v \in 1..MaxInterval }

\* update_interval (lines 74-77)
configured_interval(options, data) ==
    GetDefault(options, "update_interval",
               GetDefault(data, "update_interval", DEFAULT_UPDATE_INTERVAL))

\* timedelta(seconds=update_interval) (line 160)
timedelta(s) == [seconds |-> s]

-----------------------------------------------------------------------------
(* The sensor platform (sensor.py) *)

\* async_setup_entry of the platform: PrinterStatusSensor.__init__ (line 161)
\* calls coordinator.data.get, which raises AttributeError on None; otherwise
\* the entities are added (line 64).
sensor_async_setup_entry(data) == IF data = None THEN "raised" ELSE "added"

\* Variant of available: CoordinatorEntity's default, the last refresh succeeded.
available_LastUpdateSuccess == last_update_success

\* PrinterSensorBase.available (lines 80-84)
available == coordinator_data # None

\* Variant of is_printer_online: is_online is read without its default.
is_printer_online_NoDefault(data) ==
    IF ~Truthy(data) THEN FALSE
    ELSE "is_online" \in DOMAIN data /\ data.is_online

\* PrinterSensorBase.is_printer_online (lines 86-91)
is_printer_online(data) ==
    IF ~Truthy(data) THEN FALSE ELSE GetDefault(data, "is_online", TRUE)

\* PrinterStatusSensor.native_value (lines 169-180)
native_value(data) ==
    IF ~Truthy(data) THEN "unknown"
    ELSE IF ~is_printer_online(data) THEN "offline"
    ELSE GetDefault(GetDefault(data, "status", EmptyDict), "state", "unknown")

\* No supply or tray entity.
NoEntities == [supplies |-> << >>, input_trays |-> << >>]

\* The supplies a PrinterSupplySensor is built for (lines 54-57).
supply_entities(data) ==
    IF Truthy(data) /\ "supplies" \in DOMAIN data THEN data.supplies ELSE << >>

\* The trays a PrinterTraySensor is built for (lines 59-62).
tray_entities(data) ==
    IF Truthy(data) /\ "input_trays" \in DOMAIN data THEN data.input_trays ELSE << >>

\* Variant of EntitiesAfterCycle: the entities follow the published snapshot.
EntitiesAfterCycle_Rebuilt(ents, data) ==
    IF ents = NoEntities THEN ents
    ELSE [supplies |-> supply_entities(data), input_trays |-> tray_entities(data)]

\* The entities once a cycle has published data: sensor.py builds entities in
\* async_setup_entry only, no listener adds or removes one.
EntitiesAfterCycle(ents, data) == ents

\* The first item of a list whose index is idx, or None (the for loops of
\* lines 365-368, 378-379, 465-468 and 478-479).
FirstWithIndex(items, idx) ==
    LET m == { i \in 1..Len(items) : Get(items[i], "index") = idx }
    IN  IF m = {} THEN None ELSE items[CHOOSE i \in m : \A j \in m : i <= j]

\* Variant of supply_native_value: the percentage the entity was built with.
supply_native_value_AtSetup(supply, data) ==
    IF "percentage" \in DOMAIN supply THEN PyInt(supply.percentage) ELSE None

\* PrinterSupplySensor.native_value (lines 359-370); supply is self._supply.
supply_native_value(supply, data) ==
    IF ~Truthy(data) \/ "supplies" \notin DOMAIN data THEN None
    ELSE LET s == FirstWithIndex(data.supplies, Get(supply, "index"))
         IN  IF s # None /\ "percentage" \in DOMAIN s THEN PyInt(s.percentage) ELSE None

\* PrinterTraySensor.native_value (lines 459-470); tray is self._tray.
tray_native_value(tray, data) ==
    IF ~Truthy(data) \/ "input_trays" \notin DOMAIN data THEN None
    ELSE LET t == FirstWithIndex(data.input_trays, Get(tray, "index"))
         IN  IF t # None /\ "percentage" \in DOMAIN t THEN PyInt(t.percentage) ELSE None

\* The attributes added while cached data is shown, under the key stamp
\* (lines 198-202, 290-295, 386-391, 487-492): the flag, and the capture time
\* when `if offline_since:` holds.
offline_attributes(data, stamp) ==
    LET offline_since == Get(data, "offline_since")
    IN  IF offline_since # None
        THEN SetKey([using_cached_data |-> TRUE], stamp, offline_since)
        ELSE [using_cached_data |-> TRUE]

\* PrinterStatusSensor.extra_state_attributes (lines 182-207): the info values
\* that are not None, and the offline attributes.
status_extra_state_attributes(data) ==
    IF ~Truthy(data) THEN EmptyDict
    ELSE LET info == GetDefault(data, "info", EmptyDict)
             attributes ==
                 [k \in {"uptime", "contact", "location", "serial_number", "description"}
                         \cap DOMAIN info |-> info[k]]
         IN  IF ~is_printer_online(data)
             THEN Merge(attributes, offline_attributes(data, "offline_since"))
             ELSE attributes

\* PrinterPageCountSensor.extra_state_attributes (lines 275-297)
page_count_extra_state_attributes(data) ==
    IF ~Truthy(data) THEN EmptyDict
    ELSE LET page_count == GetDefault(data, "page_count", EmptyDict)
             color == IF "color" \in DOMAIN page_count
                      THEN [color_pages |-> page_count.color] ELSE EmptyDict
             bw == IF "black_and_white" \in DOMAIN page_count
                   THEN [black_and_white_pages |-> page_count.black_and_white]
                   ELSE EmptyDict
             attrs == Merge(color, bw)
         IN  IF ~is_printer_online(data)
             THEN Merge(attrs, offline_attributes(data, "last_updated"))
             ELSE attrs

\* The RGB codes of lines 394-410.
rgb_color ==
    ("Black" :> <<0, 0, 0>>) @@ ("Cyan" :> <<0, 255, 255>>)
    @@ ("Magenta" :> <<255, 0, 255>>) @@ ("Yellow" :> <<255, 255, 0>>)
    @@ ("Gray" :> <<128, 128, 128>>) @@ ("Grey" :> <<128, 128, 128>>)
    @@ ("Light Cyan" :> <<128, 255, 255>>) @@ ("Light Magenta" :> <<255, 128, 255>>)
    @@ ("Photo" :> <<128, 128, 255>>)

\* Variant of supply_extra_state_attributes: the offline attributes are added
\* without asking whether the printer is online.
supply_extra_state_attributes_NoOnlineTest(supply, data) ==
    IF ~Truthy(data) \/ "supplies" \notin DOMAIN data THEN EmptyDict
    ELSE LET s == FirstWithIndex(data.supplies, Get(supply, "index"))
         IN  IF s = None THEN EmptyDict
             ELSE Merge([type |-> Get(s, "type"), color |-> Get(s, "color"),
                         description |-> Get(s, "description")],
                        offline_attributes(data, "last_updated"))

\* PrinterSupplySensor.extra_state_attributes (lines 372-414)
supply_extra_state_attributes(supply, data) ==
    IF ~Truthy(data) \/ "supplies" \notin DOMAIN data THEN EmptyDict
    ELSE LET s == FirstWithIndex(data.supplies, Get(supply, "index"))
         IN  IF s = None THEN EmptyDict
             ELSE LET attributes == [type |-> Get(s, "type"), color |-> Get(s, "color"),
                                     description |-> Get(s, "description")]
                      offline == IF ~is_printer_online(data)
                                 THEN offline_attributes(data, "last_updated")
                                 ELSE EmptyDict
                      color == GetDefault(s, "color", "")
                      rgb == IF color \in DOMAIN rgb_color
                             THEN [rgb_color |-> rgb_color[color]] ELSE EmptyDict
                  IN  Merge(Merge(attributes, offline), rgb)

\* PrinterTraySensor.extra_state_attributes (lines 472-496)
tray_extra_state_attributes(tray, data) ==
    IF ~Truthy(data) \/ "input_trays" \notin DOMAIN data THEN EmptyDict
    ELSE LET t == FirstWithIndex(data.input_trays, Get(tray, "index"))
         IN  IF t = None THEN EmptyDict
             ELSE LET attributes ==
                          [status |-> Get(t, "status"), media_name |-> Get(t, "media_name"),
                           max_capacity |-> Get(t, "max_capacity"),
                           current_level |-> Get(t, "current_level")]
                  IN  IF ~is_printer_online(data)
                      THEN Merge(attributes, offline_attributes(data, "last_updated"))
                      ELSE attributes

\* The dicts that hold key k with a value of vals, or do not hold it.
OptionalKey(k, vals) == { EmptyDict } \cup { [x \in {k} |-> v] : v \in vals }

\* What coordinator.data can look like to an entity: None, or a dict with or
\* without each of the keys the status entity reads.
SnapshotShapes ==
    { None } \cup
    { Merge(Merge(a, b), Merge(c, d)) :
        a \in OptionalKey("is_online", BOOLEAN),
        b \in OptionalKey("status",
                 { EmptyDict } \cup
                 { [state |-> st] : st \in {"idle", "printing", "warming_up", "unknown"} }),
        c \in OptionalKey("offline_since", { isoformat(0) }),
        d \in OptionalKey("info", { [description |-> "HP LaserJet"] }) }

-----------------------------------------------------------------------------
(* The coordinator (DataUpdateCoordinator.async_refresh around update_method) *)

\* What a finished cycle leaves in the coordinator: returned data is published,
\* UpdateFailed leaves coordinator.data as it was.
PublishedAfter(ret, data) == IF ret.kind = "return" THEN ret.value ELSE data

\* A cycle ends with `ret`; `how` records the way it ended.
EndCycle(ret, how) ==
    /\ coordinator_data' = PublishedAfter(ret, coordinator_data)
    /\ last_update_success' = (ret.kind = "return")
    /\ prev_data' = coordinator_data
    /\ entities' = EntitiesAfterCycle(entities, PublishedAfter(ret, coordinator_data))
    /\ last' = how
    /\ at' = 0
    /\ replies' = EmptyDict
    /\ pc' = IF pc = "first_refresh" THEN "forward" ELSE "idle"

\* The history entry of a cycle that ended in the except clause.
Failed(stage, msg, ret) ==
    [ n |-> now, failed_at |-> stage, partial |-> (replies # EmptyDict), msg |-> msg,
      is_connection_error |-> Classification[msg],
      raised |-> (ret.kind = "raise") ]

-----------------------------------------------------------------------------
(* State *)

\* A complete set of results read at clock value c.
CompleteReplies(c) ==
    { [ system_info |-> si, device_info |-> di, cover_status |-> cs, supplies |-> su,
        input_trays |-> tr, display_text |-> dt, errors |-> er,
        web_interface_available |-> w ] :
        si \in get_system_info(c), di \in get_device_info(c),
        cs \in get_cover_status(c), su \in get_supplies(c),
        tr \in get_input_trays(c), dt \in get_display_text(c),
        er \in get_printer_errors(c), w \in BOOLEAN }

\* What the Store's file can hold when the process starts: nothing, the
\* record an earlier run saved (at clock value 0, for any configured host), or
\* a record without the timestamp key (lines 143 and 148 read it with .get).
StartupRecords ==
    { None } \cup
    { [data |-> AssembleData(r), timestamp |-> isoformat(0), host |-> h] :
        r \in CompleteReplies(0), h \in Hosts } \cup
    { [data |-> AssembleData(r), host |-> CONF_HOST] : r \in CompleteReplies(0) }

\* The state at the call of async_setup_entry, but for the configured interval
\* and coordinator.data.
InitCommon ==
    /\ disk \in StartupRecords
    /\ startup_record = disk
    /\ cached_data = None
    /\ update_interval = None
    /\ sensor_setup = "pending"
    /\ readout = None
    /\ entities = NoEntities
    /\ probe = None
    /\ last_update_success = TRUE
    /\ listeners = FALSE
    /\ pc = "load"
    /\ at = 0
    /\ replies = EmptyDict
    /\ now = 0
    /\ last = None
    /\ prev_data = None
    /\ good = None
    /\ load_outcome = "pending"

\* No refresh interval is configured: the default applies.
Init ==
    /\ InitCommon
    /\ entry_options = EmptyDict
    /\ entry_data = EmptyDict
    /\ coordinator_data = None

-----------------------------------------------------------------------------
(* async_setup_entry *)

\* Variant of OrEmptyDict: the loaded record is dropped.
OrEmptyDict_Dropped(v) == EmptyDict

\* v or {}
OrEmptyDict(v) == IF Truthy(v) THEN v ELSE EmptyDict

\* cached_data = await store.async_load() or {} (line 83), the load returning.
LoadReturns ==
    /\ pc = "load"
    /\ cached_data' = OrEmptyDict(disk)
    /\ load_outcome' = IF disk = None THEN "absent" ELSE "record"
    /\ pc' = "created"
    /\ update_interval' = timedelta(configured_interval(entry_options, entry_data))
    /\ UNCHANGED << disk, coordinator_data, last_update_success, listeners, at, replies,
                    now, last, prev_data, good, startup_record, entry_options,
                    entry_data, sensor_setup, readout, entities, probe >>

\* Line 83 when store.async_load raises (the file cannot be read): nothing
\* catches it, async_setup_entry ends with the exception.
LoadRaises ==
    /\ pc = "load"
    /\ disk # None
    /\ load_outcome' = "error"
    /\ pc' = "setup_error"
    /\ UNCHANGED << disk, cached_data, coordinator_data, last_update_success, listeners,
                    at, replies, now, last, prev_data, good, startup_record,
                    entry_options, entry_data, update_interval, sensor_setup, readout, entities, probe >>

\* A refresh begins: the first one awaited by setup (line 165), later ones
\* scheduled by the coordinator while it has listeners.
BeginCycle ==
    /\ \/ pc = "created" /\ pc' = "first_refresh"
       \/ pc = "idle" /\ listeners /\ pc' = "refresh"
    /\ now < MaxCycles
    /\ now' = now + 1
    /\ at' = 1
    /\ replies' = EmptyDict
    /\ probe' = None
    /\ UNCHANGED << disk, cached_data, coordinator_data, last_update_success, listeners,
                    last, prev_data, good, startup_record, load_outcome, entry_options,
                    entry_data, update_interval, sensor_setup, readout, entities >>

\* One of the seven protocol queries returns (lines 89-101).
QueryReturns ==
    /\ at \in 1..Len(Queries)
    /\ \E r \in Replies(Queries[at], now) :
          replies' = SetKey(replies, Queries[at], r)
    /\ at' = at + 1
    /\ UNCHANGED << disk, cached_data, coordinator_data, last_update_success, listeners,
                    pc, now, last, prev_data, good, startup_record, load_outcome,
                    entry_options, entry_data, update_interval, sensor_setup, readout, entities, probe >>

\* One of the seven protocol queries raises: the except clause runs.
QueryRaises ==
    /\ at \in 1..Len(Queries)
    /\ \E msg \in QueryMessages :
          LET ret == OnException(cached_data, msg)
          IN  /\ EndCycle(ret, Failed("query", msg, ret))
              /\ cached_data' = CachedDataAfter(cached_data, msg)
    /\ UNCHANGED << disk, listeners, now, good, startup_record, load_outcome,
                    entry_options, entry_data, update_interval, sensor_setup, readout, probe >>

\* check_web_interface returns (lines 102-104): the HTTP attempt, then, unless
\* line 38 returned, the HTTPS attempt. Both try blocks catch Exception, so it
\* never raises.
WebCheck ==
    /\ at = Len(Queries) + 1
    /\ \E http \in WebOutcomes :
          \E https \in HttpsOutcomes(http) :
             /\ replies' = SetKey(replies, "web_interface_available",
                                  check_web_interface(http, https))
             /\ probe' = [http |-> http, https |-> https]
    /\ at' = at + 1
    /\ UNCHANGED << disk, cached_data, coordinator_data, last_update_success, listeners,
                    pc, now, last, prev_data, good, startup_record, load_outcome,
                    entry_options, entry_data, update_interval, sensor_setup, readout,
                    entities >>

\* store.async_save returns (line 113): the record is written, the data is
\* marked online and returned (lines 116-118).
SaveReturns ==
    /\ at = Len(Queries) + 2
    /\ LET data == AssembleData(replies)
           ret == [kind |-> "return", value |-> MarkOnline(data)]
       IN  /\ disk' = cache_data(data, now)
           /\ good' = [data |-> ret.value, timestamp |-> isoformat(now), n |-> now]
           /\ EndCycle(ret, [ n |-> now, failed_at |-> "none", partial |-> FALSE,
                              msg |-> MsgEmpty, is_connection_error |-> FALSE,
                              raised |-> FALSE ])
    /\ UNCHANGED << cached_data, listeners, now, startup_record, load_outcome,
                    entry_options, entry_data, update_interval, sensor_setup, readout, probe >>

\* store.async_save raises (line 113): nothing is written and the except
\* clause runs as for a failed query.
SaveRaises ==
    /\ at = Len(Queries) + 2
    /\ \E msg \in SaveMessages :
          LET ret == OnException(cached_data, msg)
          IN  /\ EndCycle(ret, Failed("save", msg, ret))
              /\ cached_data' = CachedDataAfter(cached_data, msg)
    /\ UNCHANGED << disk, listeners, now, good, startup_record, load_outcome,
                    entry_options, entry_data, update_interval, sensor_setup, readout, probe >>

\* hass.config_entries.async_forward_entry_setups (line 175): the sensor
\* platform builds its entities; PrinterStatusSensor.__init__ reads
\* coordinator.data.get(...), which raises when no snapshot was published, and
\* then no entity is added.
ForwardEntrySetups ==
    /\ pc = "forward"
    /\ sensor_setup' = sensor_async_setup_entry(coordinator_data)
    /\ listeners' = (sensor_setup' = "added")
    /\ pc' = "idle"
    /\ entities' = IF sensor_setup' = "added"
                    THEN [ supplies |-> supply_entities(coordinator_data),
                           input_trays |-> tray_entities(coordinator_data) ]
                    ELSE NoEntities
    /\ UNCHANGED << disk, cached_data, coordinator_data, last_update_success, at,
                    replies, now, last, prev_data, good, startup_record, load_outcome,
                    entry_options, entry_data, update_interval, readout, probe >>

Next ==
    \/ LoadReturns
    \/ LoadRaises
    \/ BeginCycle
    \/ QueryReturns
    \/ QueryRaises
    \/ WebCheck
    \/ SaveReturns
    \/ SaveRaises
    \/ ForwardEntrySetups

Spec == Init /\ [][Next]_vars

-----------------------------------------------------------------------------
(* The setup of the coordinator for every configured refresh interval *)

IntervalInit ==
    /\ InitCommon
    /\ entry_options \in IntervalSettings
    /\ entry_data \in IntervalSettings
    /\ coordinator_data = None

IntervalNext ==
    \/ LoadReturns
    \/ LoadRaises

SpecInterval == IntervalInit /\ [][IntervalNext]_vars

-----------------------------------------------------------------------------
(* The status entity on every shape of coordinator.data *)

SensorInit ==
    /\ InitCommon
    /\ entry_options = EmptyDict
    /\ entry_data = EmptyDict
    /\ coordinator_data \in SnapshotShapes

\* The status entity writes its state.
ReadStatus ==
    /\ readout = None
    /\ readout' = [native_value |-> native_value(coordinator_data)]
    /\ UNCHANGED << disk, cached_data, coordinator_data, last_update_success, listeners,
                    pc, at, replies, now, last, prev_data, good, startup_record,
                    load_outcome, entry_options, entry_data, update_interval,
                    sensor_setup, entities, probe >>

SensorNext == ReadStatus

SpecSensor == SensorInit /\ [][SensorNext]_vars

-----------------------------------------------------------------------------
(* Vocabulary of the properties *)

\* del d[k]
RemoveKey(d, k) == [x \in (DOMAIN d) \ {k} |-> d[x]]

\* A snapshot's data fields: everything but the two staleness fields.
DataFields(d) == RemoveKey(RemoveKey(d, "is_online"), "offline_since")

\* The Stale snapshot of data d captured at timestamp ts.
StaleOf(d, ts) == SetKey(SetKey(DataFields(d), "is_online", FALSE), "offline_since", ts)

IsOnline(d) == "is_online" \in DOMAIN d /\ d.is_online = TRUE

IsStale(d) == "is_online" \in DOMAIN d /\ d.is_online = FALSE

\* The messages of the model that name a connectivity problem, by reading them:
\* each holds one of the nine keywords in some mix of cases.
ConnectivityMessages ==
    { MsgTimeout, MsgUnreachable, MsgNoRoute, MsgConnection, MsgNetwork, MsgGhost,
      MsgRefused, MsgAuthFailed, MsgNoResponse, MsgWriteFailed }

\* The messages of the model that hold none of the nine keywords.
OtherFailureMessages ==
    { MsgTimedOut, MsgNoRouteGap, MsgWrongDigest, MsgNoSnmpResponse, MsgEmpty,
      MsgReadOnly }

\* The most recent cycle has ended in the except clause.
CycleFailed == last # None /\ last.failed_at # "none"

\* A record with data was loaded at startup.
CacheLoaded == Truthy(Get(cached_data, "data"))

\* The clock values the fields of snapshot data d were read at.
Revs(d) ==
    { d.info.uptime, d.page_count.total, d.cover_status.state[2],
      d.display_text[2], d.errors[2] }
    \cup { 100 - d.supplies[i].percentage : i \in 1..Len(d.supplies) }
    \cup { 100 - d.input_trays[i].percentage : i \in 1..Len(d.input_trays) }
    \cup { IF "page_count" \in DOMAIN d.status
           THEN d.status.page_count ELSE d.status.page_counts.total }

-----------------------------------------------------------------------------
(* Properties *)

\* C1: a cycle that fails with an Unreachable-classified error after some
\* earlier cycle of the process succeeded publishes the data of the MOST RECENT
\* successful cycle, with is_online = False and offline_since = that cycle's
\* capture timestamp, whether or not a record was loaded at startup.
C1_FallbackServesLastSuccess ==
    (CycleFailed /\ last.msg \in ConnectivityMessages /\ good # None) =>
        /\ ~last.raised
        /\ coordinator_data = StaleOf(good.data, good.timestamp)

\* C2: every cycle in which all seven protocol queries succeed publishes a
\* snapshot with is_online = True and without offline_since.
C2_QueriesSucceededPublishesFresh ==
    (last # None /\ last.failed_at \in {"none", "save"}) =>
        /\ ~last.raised
        /\ last_update_success
        /\ IsOnline(coordinator_data)
        /\ "offline_since" \notin DOMAIN coordinator_data

\* C3: a cycle that fails with an Unreachable-classified error when no record
\* was loaded at startup and no cycle has succeeded reports an update failure
\* and publishes nothing.
C3_UnreachableWithoutLastGood ==
    (CycleFailed /\ last.msg \in ConnectivityMessages /\ load_outcome = "absent"
        /\ good = None) =>
        /\ last.raised
        /\ ~last_update_success
        /\ coordinator_data = None

C3_Witness ==
    /\ CycleFailed /\ last.failed_at = "query" /\ last.msg = MsgTimeout
    /\ load_outcome = "absent" /\ good = None
    /\ last.raised

\* C4: a cycle that fails with a message holding none of the connectivity
\* keywords reports an update failure, with or without a cached snapshot, and
\* the published snapshot stays what it was before the cycle.
C4_OtherFailureSurfaces ==
    (CycleFailed /\ last.msg \in OtherFailureMessages) =>
        /\ last.raised
        /\ ~last_update_success
        /\ coordinator_data = prev_data

C4_Witness ==
    /\ CycleFailed /\ last.msg = MsgWrongDigest
    /\ CacheLoaded
    /\ prev_data # None /\ IsOnline(prev_data)
    /\ last.raised /\ coordinator_data = prev_data

\* C5 as stated: a query failing with "authentication failed" while a valid
\* cache record exists reports an update failure and leaves the published
\* snapshot as it was (no Stale fallback).
C5_AuthFailedNotMasked ==
    (CycleFailed /\ last.failed_at = "query" /\ last.msg = MsgAuthFailed
        /\ CacheLoaded /\ cached_data.host = CONF_HOST) =>
        /\ last.raised
        /\ coordinator_data = prev_data

\* C5, amended: "authentication failed" holds the keyword "failed", so with a
\* valid cache record the cycle publishes the cached snapshot as Stale and
\* reports no failure; a message with none of the keywords ("wrong digest")
\* reports an update failure and leaves the published snapshot as it was.
C5_AuthFailedServedFromCache ==
    (CycleFailed /\ last.failed_at = "query" /\ CacheLoaded
        /\ cached_data.host = CONF_HOST) =>
        /\ last.msg = MsgAuthFailed =>
              /\ ~last.raised
              /\ last_update_success
              /\ coordinator_data =
                    StaleOf(cached_data.data, Get(cached_data, "timestamp"))
        /\ last.msg = MsgWrongDigest =>
              /\ last.raised
              /\ ~last_update_success
              /\ coordinator_data = prev_data

C5_Witness ==
    /\ CycleFailed /\ last.failed_at = "query" /\ last.msg = MsgAuthFailed
    /\ CacheLoaded /\ cached_data.host = CONF_HOST
    /\ IsStale(coordinator_data)
    /\ prev_data # None /\ IsOnline(prev_data)

\* The nine substrings of the claim.
NineSubstrings ==
    { <<"t", "i", "m", "e", "o", "u", "t">>,
      <<"u", "n", "r", "e", "a", "c", "h", "a", "b", "l", "e">>,
      <<"n", "o", " ", "r", "o", "u", "t", "e">>,
      <<"c", "o", "n", "n", "e", "c", "t", "i", "o", "n">>,
      <<"n", "e", "t", "w", "o", "r", "k">>,
      <<"h", "o", "s", "t">>,
      <<"r", "e", "f", "u", "s", "e", "d">>,
      <<"f", "a", "i", "l", "e", "d">>,
      <<"n", "o", " ", "r", "e", "s", "p", "o", "n", "s", "e">> }

\* Two characters that are equal or the two cases of one letter.
SameLetter(a, b) ==
    a = b \/ \E n \in 1..Len(UpperCase) : {a, b} = {UpperCase[n], LowerCase[n]}

\* Message m holds substring k, cases ignored.
HoldsIgnoringCase(m, k) ==
    \E i \in 1..Len(m) :
        /\ i + Len(k) - 1 <= Len(m)
        /\ \A j \in 1..Len(k) : SameLetter(m[i + j - 1], k[j])

\* For every message a call can raise: it holds, cases ignored, one of the
\* nine substrings.
HoldsKeyword ==
    [m \in QueryMessages \cup SaveMessages |->
        \E k \in NineSubstrings : HoldsIgnoringCase(m, k)]

\* C6: the except clause classifies a failure as a connection error if and
\* only if its message holds, cases ignored, one of the nine substrings.
C6_ClassifierIsKeywordMatch ==
    CycleFailed =>
        /\ last.is_connection_error <=> HoldsKeyword[last.msg]
        /\ last.is_connection_error <=> last.msg \in ConnectivityMessages
        /\ ~last.is_connection_error <=> last.msg \in OtherFailureMessages

C6_Witness ==
    /\ CycleFailed /\ last.msg = MsgNoResponse /\ last.is_connection_error

\* C7: when the seven queries succeed and store.async_save fails, the cycle
\* still publishes the fresh snapshot with is_online = True and reports no
\* update failure.
C7_SaveFailureNotPropagated ==
    (last # None /\ last.failed_at = "save") =>
        /\ ~last.raised
        /\ last_update_success
        /\ IsOnline(coordinator_data)

\* C8: loading the cache never fails setup: an absent record and a read error
\* both leave "no cache available" and setup goes on to the first cycle.
C8_LoadNeverFailsSetup ==
    load_outcome \in {"absent", "error"} =>
        /\ cached_data = EmptyDict
        /\ pc # "setup_error"

\* C9: every published snapshot and every saved record is made of the results
\* of one cycle only, and a cycle in which a query failed leaves none of the
\* results it had obtained in the published snapshot or on disk.
C9_AllOrNothing ==
    /\ coordinator_data # None => Cardinality(Revs(coordinator_data)) = 1
    /\ disk # None => Cardinality(Revs(disk.data)) = 1
    /\ (CycleFailed /\ last.failed_at = "query") =>
          /\ coordinator_data # None => last.n \notin Revs(coordinator_data)
          /\ disk # None => last.n \notin Revs(disk.data)

C9_Witness ==
    /\ CycleFailed /\ last.failed_at = "query" /\ last.partial
    /\ ~last.raised /\ IsStale(coordinator_data)
    /\ good # None

\* C10: the record on disk is that of the most recent successful cycle (its
\* data, capture timestamp and the configured host), or the startup record if
\* no cycle succeeded; it never holds is_online or offline_since.
C10_DiskIsLastSuccess ==
    /\ disk = IF good = None
              THEN startup_record
              ELSE [ data |-> DataFields(good.data), timestamp |-> good.timestamp,
                     host |-> CONF_HOST ]
    /\ disk # None =>
          /\ "is_online" \notin DOMAIN disk.data
          /\ "offline_since" \notin DOMAIN disk.data

C10_Witness ==
    /\ CycleFailed /\ ~last.raised /\ IsStale(coordinator_data)
    /\ good # None /\ disk # startup_record
    /\ disk.timestamp = good.timestamp


\* C12: on a first start with the device unreachable and no cache record,
\* setup runs to its end (the entry's setup and the sensor platform's setup
\* both finish without raising), the first refresh is reported failed and no
\* snapshot is published.
C12_FirstStartUnreachableCompletes ==
    (load_outcome = "absent" /\ CycleFailed /\ last.n = 1
        /\ last.msg \in ConnectivityMessages /\ pc = "idle") =>
        /\ sensor_setup = "added"
        /\ ~last_update_success
        /\ coordinator_data = None

\* C13: at startup with a cache record loaded and the device unreachable, the
\* first cycle, awaited by setup, publishes the loaded snapshot as Stale
\* (is_online = False, offline_since = the record's timestamp) before any
\* entity is created, and setup then completes with its entities added.
C13_FirstCycleServesLoadedRecord ==
    (load_outcome = "record" /\ CycleFailed /\ last.n = 1
        /\ last.failed_at = "query" /\ last.msg \in ConnectivityMessages) =>
        /\ pc \in {"forward", "idle", "refresh"}
        /\ coordinator_data =
              StaleOf(startup_record.data, Get(startup_record, "timestamp"))
        /\ last_update_success
        /\ pc = "forward" => sensor_setup = "pending"
        /\ pc # "forward" => sensor_setup = "added"

C13_Witness ==
    /\ load_outcome = "record" /\ CycleFailed /\ last.n = 1
    /\ last.failed_at = "query" /\ last.msg = MsgUnreachable
    /\ IsStale(coordinator_data)
    /\ coordinator_data.offline_since = isoformat(0)
    /\ pc = "idle" /\ sensor_setup = "added"


\* C14: whatever refresh interval entry.options or entry.data holds, values
\* below the floor included, the coordinator's update interval is at least
\* the floor.
C14_IntervalAtLeastFloor ==
    update_interval # None => update_interval.seconds >= MIN_UPDATE_INTERVAL


\* A field that holds a value: the key is there and its value is not None.
Present(d, k) == k \in DOMAIN d /\ d[k] # None

\* The most recent cycle published a fallback snapshot.
FellBack == CycleFailed /\ ~last.raised

\* C15: the published snapshot has offline_since present if and only if
\* is_online is False, whatever record the Stale snapshot was built from.
C15_OfflineSinceIffOffline ==
    coordinator_data # None =>
        (Present(coordinator_data, "offline_since") <=> IsStale(coordinator_data))

\* C16: every Stale snapshot carries the capture timestamp of the snapshot it
\* serves, never the time of the failed attempt, and so the same offline_since
\* as the Stale snapshot published before it.
C16_OfflineSinceNotAdvanced ==
    FellBack =>
        /\ IsStale(coordinator_data)
        /\ coordinator_data.offline_since = Get(cached_data, "timestamp")
        /\ coordinator_data.offline_since # isoformat(last.n)
        /\ Present(coordinator_data, "offline_since") =>
              Revs(coordinator_data) = { coordinator_data.offline_since.iso }
        /\ (prev_data # None /\ IsStale(prev_data)) =>
              coordinator_data.offline_since = prev_data.offline_since

C16_Witness ==
    /\ FellBack /\ last.n >= 2
    /\ prev_data # None /\ IsStale(prev_data)
    /\ Present(coordinator_data, "offline_since")
    /\ coordinator_data.offline_since = prev_data.offline_since

\* C17: a cache record whose host differs from the configured host is treated
\* as "no cache available" and is never published as a Stale fallback.
C17_ForeignRecordRejected ==
    (load_outcome = "record" /\ startup_record.host # CONF_HOST) =>
        /\ cached_data = EmptyDict
        /\ ~(coordinator_data # None /\ IsStale(coordinator_data))

\* C18: a fallback leaves the in-memory record as it was loaded: its data never
\* holds is_online or offline_since, every data field of the Stale snapshot is
\* the record's, and a fallback right after a Stale publish publishes an equal
\* snapshot.
C18_FallbackLeavesRecordUnchanged ==
    /\ load_outcome \in {"absent", "record"} =>
          cached_data = IF startup_record = None THEN EmptyDict ELSE startup_record
    /\ CacheLoaded =>
          /\ "is_online" \notin DOMAIN cached_data.data
          /\ "offline_since" \notin DOMAIN cached_data.data
    /\ FellBack => DataFields(coordinator_data) = cached_data.data
    /\ (FellBack /\ prev_data # None /\ IsStale(prev_data)) =>
          coordinator_data = prev_data

C18_Witness ==
    /\ FellBack /\ prev_data # None /\ IsStale(prev_data)
    /\ coordinator_data = prev_data
    /\ DataFields(coordinator_data) = startup_record.data

\* C19: an entity is available exactly when the coordinator holds a published
\* snapshot; a cycle that reports failure after a snapshot was published leaves
\* the entities available and showing that snapshot.
C19_AvailableIffPublished ==
    sensor_setup = "added" =>
        /\ available <=> coordinator_data # None
        /\ (CycleFailed /\ last.raised /\ prev_data # None) =>
              /\ available
              /\ coordinator_data = prev_data
              /\ native_value(coordinator_data) = native_value(prev_data)

C19_Witness ==
    /\ sensor_setup = "added"
    /\ CycleFailed /\ last.raised /\ ~last_update_success
    /\ coordinator_data # None /\ available

\* C20: the status entity reports "unknown" with no snapshot, "offline" when
\* the snapshot has is_online = False whatever its status state, and otherwise
\* the status state ("unknown" when absent); a snapshot without is_online
\* counts as online.
C20_StatusValue ==
    readout # None =>
        readout.native_value =
            IF coordinator_data = None THEN "unknown"
            ELSE IF IsStale(coordinator_data) THEN "offline"
            ELSE IF "status" \in DOMAIN coordinator_data
                    /\ "state" \in DOMAIN coordinator_data.status
                 THEN coordinator_data.status.state
                 ELSE "unknown"

C20_Witness ==
    /\ readout # None
    /\ coordinator_data # None
    /\ "is_online" \notin DOMAIN coordinator_data
    /\ "status" \in DOMAIN coordinator_data
    /\ coordinator_data.status = [state |-> "printing"]
    /\ readout.native_value = "printing"

\* The positions of the published supplies whose index is that of entity e.
PublishedSupply(e) ==
    { i \in 1..Len(coordinator_data.supplies) :
        coordinator_data.supplies[i].index = e.index }

\* C21: the supplies of a snapshot published by a successful cycle are the
\* sequence the supplies query returned in that cycle, and every supply entity
\* reports the percentage of the published supply that has the entity's index,
\* or nothing when there is no snapshot or no supply with that index.
C21_SuppliesAsReturned ==
    /\ (last # None /\ last.failed_at = "none") =>
          coordinator_data.supplies \in get_supplies(last.n)
    /\ \A k \in 1..Len(entities.supplies) :
          LET e == entities.supplies[k]
          IN  /\ supply_native_value(e, None) = None
              /\ supply_native_value(e, coordinator_data) =
                    IF coordinator_data = None \/ PublishedSupply(e) = {}
                    THEN None
                    ELSE PyInt(coordinator_data.supplies[
                                   CHOOSE i \in PublishedSupply(e) : TRUE].percentage)

C21_Witness ==
    /\ last # None /\ last.failed_at = "none" /\ last.n = 3
    /\ Len(coordinator_data.supplies) = 2
    /\ Len(entities.supplies) = 2
    /\ entities.supplies[1].index = 1
    /\ coordinator_data.supplies[2].index = 1
    /\ supply_native_value(entities.supplies[1], coordinator_data) = PyInt(97)

\* The attributes attrs of an entity say "cached data, captured at the
\* snapshot's offline_since" under the key stamp when flagged, and hold neither
\* attribute otherwise.
StalenessShown(attrs, stamp, flagged) ==
    /\ ("using_cached_data" \in DOMAIN attrs) <=> flagged
    /\ flagged =>
          /\ attrs.using_cached_data = TRUE
          /\ Get(attrs, stamp) = Get(coordinator_data, "offline_since")
    /\ ~flagged => stamp \notin DOMAIN attrs

\* The published snapshot lists an item with the index of entity e under key.
Listed(key, e) ==
    \E i \in 1..Len(coordinator_data[key]) : coordinator_data[key][i].index = e.index

\* C22: the status, page-count, supply and tray entities show using_cached_data
\* exactly when the published snapshot has is_online = False (and lists the
\* entity's index), then with the snapshot's offline_since as capture time;
\* they show neither attribute while the snapshot is Fresh or missing.
C22_StalenessAttributes ==
    /\ status_extra_state_attributes(None) = EmptyDict
    /\ page_count_extra_state_attributes(None) = EmptyDict
    /\ sensor_setup = "added" =>
          /\ StalenessShown(status_extra_state_attributes(coordinator_data),
                            "offline_since", IsStale(coordinator_data))
          /\ StalenessShown(page_count_extra_state_attributes(coordinator_data),
                            "last_updated", IsStale(coordinator_data))
          /\ \A k \in 1..Len(entities.supplies) :
                StalenessShown(
                    supply_extra_state_attributes(entities.supplies[k], coordinator_data),
                    "last_updated",
                    IsStale(coordinator_data) /\ Listed("supplies", entities.supplies[k]))
          /\ \A k \in 1..Len(entities.input_trays) :
                StalenessShown(
                    tray_extra_state_attributes(entities.input_trays[k], coordinator_data),
                    "last_updated",
                    IsStale(coordinator_data) /\ Listed("input_trays", entities.input_trays[k]))

C22_Witness ==
    /\ sensor_setup = "added" /\ now >= 2
    /\ IsStale(coordinator_data)
    /\ Present(coordinator_data, "offline_since")
    /\ Len(entities.supplies) = 1 /\ Len(entities.input_trays) = 1
    /\ supply_extra_state_attributes(entities.supplies[1], coordinator_data).last_updated
          = isoformat(0)
    /\ tray_extra_state_attributes(entities.input_trays[1], coordinator_data).using_cached_data
    /\ status_extra_state_attributes(coordinator_data).offline_since = isoformat(0)
    /\ page_count_extra_state_attributes(coordinator_data).last_updated = isoformat(0)

\* An attempt of the probe was answered with a status below 500.
Answered(o) == "status" \in DOMAIN o /\ o.status < 500

\* C23: the reachability probe never fails a cycle. HTTPS is attempted exactly
\* when the HTTP attempt was not answered with a status below 500; the probe's
\* result is true exactly when one of the attempts was so answered; and a
\* cycle whose two attempts both failed still publishes a Fresh snapshot, with
\* web_interface_available = False.
C23_ProbeNeverFailsCycle ==
    /\ CycleFailed => last.failed_at \in {"query", "save"}
    /\ probe # None =>
          /\ (probe.https # NotAttempted) <=> ~Answered(probe.http)
          /\ at = Len(Queries) + 2 =>
                replies.web_interface_available
                    = (Answered(probe.http) \/ Answered(probe.https))
          /\ (last # None /\ last.failed_at = "none" /\ at = 0) =>
                /\ IsOnline(coordinator_data)
                /\ last_update_success
                /\ coordinator_data.web_interface_available
                      = (Answered(probe.http) \/ Answered(probe.https))

C23_Witness ==
    /\ last # None /\ last.failed_at = "none" /\ at = 0
    /\ probe # None
    /\ probe.http = [raised |-> "timeout"]
    /\ probe.https = [status |-> 500]
    /\ IsOnline(coordinator_data)
    /\ coordinator_data.web_interface_available = FALSE

\* The indexes of the items of a list.
Indexes(items) == { items[i].index : i \in 1..Len(items) }

\* An entity whose index the published snapshot does not list reports no value
\* and no attributes.
UnlistedReportNothing ==
    sensor_setup = "added" =>
        /\ \A k \in 1..Len(entities.supplies) :
              LET e == entities.supplies[k]
              IN  ~Listed("supplies", e) =>
                    /\ supply_native_value(e, coordinator_data) = None
                    /\ supply_extra_state_attributes(e, coordinator_data) = EmptyDict
        /\ \A k \in 1..Len(entities.input_trays) :
              LET e == entities.input_trays[k]
              IN  ~Listed("input_trays", e) =>
                    /\ tray_native_value(e, coordinator_data) = None
                    /\ tray_extra_state_attributes(e, coordinator_data) = EmptyDict

\* A step that ends the platform setup builds the entities from the snapshot
\* the first cycle published; every step after the setup leaves them alone.
EntitiesBuiltOnce ==
    /\ (sensor_setup = "pending" /\ sensor_setup' = "added") =>
          /\ last.n = 1
          /\ entities'.supplies = coordinator_data.supplies
          /\ entities'.input_trays = coordinator_data.input_trays
    /\ sensor_setup # "pending" => entities' = entities

\* C24: the supply and tray entities are those of the snapshot the first cycle
\* published; no later cycle adds or removes one; an entity whose index a later
\* snapshot does not list reports no value and no attributes, and an index
\* that first appears in a later snapshot has no entity.
C24_EntitiesFixedAtSetup ==
    /\ [](sensor_setup # "added" => entities = NoEntities)
    /\ []UnlistedReportNothing
    /\ [][EntitiesBuiltOnce]_vars

C24_Witness ==
    /\ sensor_setup = "added" /\ last # None /\ last.n >= 2
    /\ Indexes(entities.supplies) = {1}
    /\ Indexes(coordinator_data.supplies) = {2}
    /\ supply_native_value(entities.supplies[1], coordinator_data) = None
    /\ supply_extra_state_attributes(entities.supplies[1], coordinator_data) = EmptyDict
    /\ Indexes(entities.input_trays) = {1}
    /\ Indexes(coordinator_data.input_trays) = {1, 2}

====
